---- MODULE Spec2Model ----
\* A model of pamplemousse, a checker of natural-deduction proofs:
\*   props.py        the proposition tree
\*   unification.py  unify, diff_tree, try_rewrite, get_symbols, the rule catalog
\*   proof.py        Line, Proof, Context (add_proof, check, compile)
\*   mouse.py        is_axiom
EXTENDS FiniteSets, Integers, Sequences, TLC

\* ------------------------------------------------------------------ bounds
MaxLine == 2       \* line numbers are 1..MaxLine
MaxProofs == 2     \* Proof objects constructed

\* ------------------------------------------------------- props.py: the tree
\* A proposition is a tuple whose first element is the name of its class.
BaseProp(name) == <<"BaseProp", name>>
PropHole(name) == <<"PropHole", name>>
ModelRef(name) == <<"ModelRef", name>>
ModelRefHole(name) == <<"ModelRefHole", name>>
And(p, q) == <<"And", p, q>>
Or(p, q) == <<"Or", p, q>>
Imp(p, q) == <<"Imp", p, q>>
ForAll(var, formula) == <<"ForAll", var, formula>>
Exists(var, formula) == <<"Exists", var, formula>>
Predicate(name, args) == <<"Predicate", name, args>>
Bool(b) == <<"bool", b>>
False == Bool(FALSE)
Not(p) == Imp(p, False)

type(p) == p[1]
IsBinary(p) == type(p) \in {"And", "Or", "Imp"}
IsQuant(p) == type(p) \in {"ForAll", "Exists"}

Range(s) == {s[i] : i \in DOMAIN s}

\* ---------------------------------------------- unification.py: get_symbols
RECURSIVE get_symbols(_)
get_symbols(formula) ==
  IF IsBinary(formula) THEN
    LET l == get_symbols(formula[2])
        r == get_symbols(formula[3])
    IN  <<l[1] \cup r[1], l[2] \cup r[2]>>
  ELSE IF IsQuant(formula) THEN
    LET s == get_symbols(formula[3])
    IN  <<s[1] \cup {formula[2]}, s[2] \cup {formula[2]}>>
  ELSE IF type(formula) = "Predicate" THEN <<Range(formula[3]), {}>>
  ELSE <<{}, {}>>

\* sym - var, the symbols check() merges into the constants
GroundSymbols(formula) == get_symbols(formula)[1] \ get_symbols(formula)[2]

\* --------------------------------------------------------- proof.py: inputs
rd == ModelRef("d")
re == ModelRef("e")
rx == ModelRef("x")
PremXD == And(Predicate("P", <<rx>>), ForAll(rx, Predicate("Q", <<rx, rd>>)))
HypD == ForAll(rx, Predicate("Q", <<rx, rd>>))
ConcE == Predicate("P", <<re>>)

\* The (proposition, justification name) pairs a Line is constructed with.
LineKinds ==
  { [typ |-> PremXD, just |-> "prem"],
    [typ |-> HypD, just |-> "hyp"],
    [typ |-> ConcE, just |-> "comm"] }

LineNums == 1..MaxLine
None == 0

VARIABLES
  lineObj,           \* the Line objects: num -> [typ, just, arg]
  proofObj,          \* the Proof objects: id -> Proof.lines (its line numbers)
  lines,             \* Context.lines (keys; the values are lineObj)
  proofs,            \* Context.proofs: sorted tuple of line numbers -> Proof
  proof_types,       \* Context.proof_types: Proof -> <<assumptions, results>>
  main_proof,        \* Context.main_proof
  constants,         \* Context.constants
  pc,                \* where Context.check() is: "idle", "loop", "done"
  todo,              \* check(): the line numbers the for loop has yet to visit
  remaining_proofs,  \* check(): local
  lines_checked,     \* check(): local
  result,            \* check(): the value returned ("none" while running)
  out                \* check(): what this run printed and compiled, in order

VARIABLES
  default_subst,      \* unify's default argument subst = {}: one dict, made once
  default_var_subst,  \* unify's default argument var_subst = {}: likewise
  upc,                \* "ready", or "returned" after a call of unify & co.
  ucall               \* the call that returned: its arguments and its outcome

uniVars == <<default_subst, default_var_subst, upc, ucall>>

ctxVars == <<lineObj, proofObj, lines, proofs, proof_types, main_proof,
             constants, pc, todo, remaining_proofs, lines_checked, result,
             out>>

\* The numbers of S from the largest down.
RECURSIVE sorted_Descending(_)
sorted_Descending(S) ==
  IF S = {} THEN << >>
  ELSE LET m == CHOOSE y \in S : \A z \in S : z <= y
       IN  <<m>> \o sorted_Descending(S \ {m})

\* sorted(S) as a tuple
RECURSIVE sorted(_)
sorted(S) ==
  IF S = {} THEN << >>
  ELSE LET m == CHOOSE x \in S : \A y \in S : x <= y
       IN  <<m>> \o sorted(S \ {m})

\* dict.update / dict[key] = value
Put(f, k, v) == [x \in DOMAIN f \cup {k} |-> IF x = k THEN v ELSE f[x]]

NoCall ==
  [op |-> "none", p |-> False, q |-> False, rule |-> "none", inst |-> "none",
   mode |-> "none", res |-> "none", subst |-> << >>, var_subst |-> << >>]

InitUni ==
  /\ default_subst = << >>
  /\ default_var_subst = << >>
  /\ upc = "ready"
  /\ ucall = NoCall

InitCtx ==
  /\ lineObj = << >>
  /\ proofObj = << >>
  /\ lines = {}
  /\ proofs = << >>
  /\ proof_types = << >>
  /\ main_proof = None
  /\ constants = {}
  /\ pc = "idle"
  /\ todo = << >>
  /\ remaining_proofs = {}
  /\ lines_checked = {}
  /\ result = "none"
  /\ out = << >>

\* No call of check() is active: its locals and its returned value are gone.
NoCheckFrame ==
  /\ pc' = "idle"
  /\ todo' = << >>
  /\ remaining_proofs' = {}
  /\ lines_checked' = {}
  /\ result' = "none"
  /\ out' = << >>

\* Line.__init__: the Line objects after the parser built those numbered ns.
\* Line numbers are unique: a number names one Line object, built once.
NewLines(ns, kinds) ==
  [n \in DOMAIN lineObj \cup ns |->
     IF n \in DOMAIN lineObj THEN lineObj[n]
     ELSE [typ |-> kinds[n].typ, just |-> kinds[n].just, arg |-> "unset"]]

\* Context.add_proof: self.lines.update(proof.lines)
add_proof_lines(proofLines) == lines \cup proofLines

\* A registry that keeps the last proof alone.
add_proof_proofs_LastOnly(proof, proofLines) ==
  Put(<< >>, sorted(proofLines), proof)

\* Context.add_proof: self.proofs[tuple(sorted(proof.lines.keys()))] = proof
add_proof_proofs(proof, proofLines) == Put(proofs, sorted(proofLines), proof)

\* Context.add_proof(Proof(lines)): the parser builds a Proof and adds it
add_proof(ns, kinds) ==
  /\ pc # "loop"
  /\ Cardinality(DOMAIN proofObj) < MaxProofs
  /\ LET proof == Cardinality(DOMAIN proofObj) + 1
     IN  /\ proofObj' = Put(proofObj, proof, ns)
         /\ lineObj' = NewLines(ns, kinds)
         /\ lines' = add_proof_lines(ns)
         /\ proofs' = add_proof_proofs(proof, ns)
         /\ main_proof' = proof
  /\ NoCheckFrame
  /\ UNCHANGED <<proof_types, constants>>
  /\ UNCHANGED uniVars

\* Justification.interpret: the kind of Argument a justification resolves to.
interpret(just) ==
  CASE just = "prem" -> "Premise"
    [] just = "hyp" -> "Hypothesis"
    [] OTHER -> "RW"

\* Line.check, up to its assertion: self.arg is set before verify is asserted.
Line_check(num) ==
  [lineObj EXCEPT ![num].arg = interpret(lineObj[num].just)]

\* A compile that takes premises for hypotheses.
IsHypothesisLine_OrPremise(line) == line.arg \in {"Hypothesis", "Premise"}

\* Proof.compile: "isinstance(line.arg, Hypothesis)"
IsHypothesisLine(line) == line.arg = "Hypothesis"

\* Proof.compile: the loop over self.lines.values()
RECURSIVE compile_loop(_, _, _)
compile_loop(nums, L, acc) ==
  IF nums = << >> THEN acc
  ELSE LET line == L[Head(nums)]
           assumptions == IF IsHypothesisLine(line)
                          THEN acc[1] \cup {line.typ} ELSE acc[1]
           results == acc[2] \cup {line.typ}
       IN  compile_loop(Tail(nums), L, <<assumptions, results>>)

compile(proof, L) == compile_loop(sorted(proofObj[proof]), L, <<{}, {}>>)

\* Context.register_type, for every proof compiled in one scan
register_types(types, ps, L) ==
  [p \in DOMAIN types \cup ps |-> IF p \in ps THEN compile(p, L) ELSE types[p]]

\* A check() that starts from the premises' symbols alone.
SeedConstants_FromEmpty(cs) ==
  UNION {GroundSymbols(lineObj[n].typ) :
           n \in {m \in lines : lineObj[m].just = "prem"}}

\* A check() that goes to the loop without looking at the premises.
SeedConstants_Skip(cs) == cs

\* check(): constants seeded from the premises
SeedConstants(cs) ==
  cs \cup UNION {GroundSymbols(lineObj[n].typ) :
                   n \in {m \in lines : lineObj[m].just = "prem"}}

\* check(): the constants after a line was verified
MergeConstants(cs, num) == cs \cup GroundSymbols(lineObj[num].typ)

\* A scan that compiles a proof as soon as one of its lines is checked.
CanCompile_AnyLine(key, remaining, checked) ==
  /\ proofs[key] \in remaining
  /\ Range(key) \cap checked # {}

\* check(): the test of the scan over self.proofs
CanCompile(key, remaining, checked) ==
  /\ proofs[key] \in remaining
  /\ Range(key) \subseteq checked

\* check(): remaining_proofs after the scan compiled ps
RemoveCompiled(remaining, ps) == remaining \ ps

\* check(): "if self.main_proof is None" and the code before the loop
CheckStart ==
  /\ pc # "loop"
  /\ out' = << >>
  /\ lines_checked' = {}
  /\ IF main_proof = None
     THEN /\ result' = "False"
          /\ pc' = "done"
          /\ todo' = << >>
          /\ remaining_proofs' = {}
          /\ UNCHANGED constants
     ELSE /\ result' = "none"
          /\ pc' = "loop"
          /\ remaining_proofs' = Range(proofs)
          /\ constants' = SeedConstants(constants)
          /\ todo' = sorted(lines)
  /\ UNCHANGED <<lineObj, proofObj, lines, proofs, proof_types, main_proof>>
  /\ UNCHANGED uniVars

\* check(): what the loop does after a line was verified
AfterLine(num, L) ==
  LET checked == lines_checked \cup {num}
      ps == {proofs[k] : k \in {j \in DOMAIN proofs :
                                  CanCompile(j, remaining_proofs, checked)}}
  IN  /\ constants' = MergeConstants(constants, num)
      /\ lines_checked' = checked
      /\ proof_types' = register_types(proof_types, ps, L)
      /\ remaining_proofs' = RemoveCompiled(remaining_proofs, ps)
      /\ out' = Append(out, [line |-> num, mark |-> "ok", compiled |-> ps])
      /\ UNCHANGED <<pc, result>>

\* A check() that swallows the failure and reports success.
AfterFailure_ReturnsTrue(num) ==
  /\ out' = Append(out, [line |-> num, mark |-> "x", compiled |-> {}])
  /\ result' = "True"
  /\ pc' = "done"
  /\ UNCHANGED <<constants, lines_checked, proof_types, remaining_proofs>>

\* A check() that merges the symbols of the line before verifying it.
AfterFailure_MergesSymbols(num) ==
  /\ out' = Append(out, [line |-> num, mark |-> "x", compiled |-> {}])
  /\ result' = "False"
  /\ pc' = "done"
  /\ constants' = MergeConstants(constants, num)
  /\ UNCHANGED <<lines_checked, proof_types, remaining_proofs>>

\* check(): the AssertionError of a failing line is caught and False returned
AfterFailure(num) ==
  /\ out' = Append(out, [line |-> num, mark |-> "x", compiled |-> {}])
  /\ result' = "False"
  /\ pc' = "done"
  /\ UNCHANGED <<constants, lines_checked, proof_types, remaining_proofs>>

\* check(): one turn of the loop over sorted(self.lines.keys()); verify is the
\* Argument's verdict on the line.
CheckLine(verify) ==
  /\ pc = "loop"
  /\ todo # << >>
  /\ LET num == Head(todo)
     IN  /\ lineObj' = Line_check(num)
         /\ todo' = Tail(todo)
         /\ IF verify THEN AfterLine(num, lineObj') ELSE AfterFailure(num)
  /\ UNCHANGED <<proofObj, lines, proofs, main_proof>>
  /\ UNCHANGED uniVars

\* check(): "return True" after the loop
CheckReturn ==
  /\ pc = "loop"
  /\ todo = << >>
  /\ result' = "True"
  /\ pc' = "done"
  /\ UNCHANGED <<lineObj, proofObj, lines, proofs, proof_types, main_proof,
                 constants, todo, remaining_proofs, lines_checked, out>>
  /\ UNCHANGED uniVars

NextCtx ==
  \/ \E ns \in SUBSET LineNums :
       \E kinds \in [ns \ DOMAIN lineObj -> LineKinds] : add_proof(ns, kinds)
  \/ CheckStart
  \/ \E verify \in BOOLEAN : CheckLine(verify)
  \/ CheckReturn

vars == <<ctxVars, uniVars>>
Init == InitCtx /\ InitUni

\* The Context, with no call of unify in between.
Spec == Init /\ [][NextCtx]_vars

\* ------------------------------------------------- Context: the claims' terms
Registered == Range(proofs)
Marked(mark) == {out[i].line : i \in {j \in DOMAIN out : out[j].mark = mark}}
CompiledAt(p) == {i \in DOMAIN out : p \in out[i].compiled}
Max(S) == CHOOSE x \in S : \A y \in S : y <= x
Ascending == \A i, j \in DOMAIN out : i < j => out[i].line < out[j].line
FailureIsLast ==
  \A i \in DOMAIN out :
    out[i].mark = "x" => i = Len(out) /\ pc = "done" /\ result = "False"

\* C1 as stated: check() returns true iff every line passes, the lines taken in
\* ascending order; a failing line is the last one verified and check() then
\* returns false.
C1_TrueIffAllPass ==
  /\ Ascending
  /\ FailureIsLast
  /\ pc = "done" => (result = "True" <=> lines \subseteq Marked("ok"))

\* C1, amended: once a proof has been added, check() returns true iff every
\* line passes, the lines taken in ascending order; a failing line is the last
\* one verified, check() then returns false, and the failing step compiles no
\* proof type. (With no proof added check() returns false.)
C1_TrueIffAllPassOnceAdded ==
  /\ [](/\ Ascending
        /\ FailureIsLast
        /\ (pc = "done" /\ main_proof # None)
             => (result = "True" <=> lines \subseteq Marked("ok"))
        /\ (pc = "done" /\ main_proof = None) => result = "False")
  /\ [][(out' # << >> /\ out'[Len(out')].mark = "x")
          => proof_types' = proof_types]_vars

\* C1's case: a line failed while a line with a larger number and an
\* uncompiled proof were still waiting.
C1_Witness ==
  /\ pc = "done"
  /\ result = "False"
  /\ out # << >>
  /\ out[Len(out)].mark = "x"
  /\ \E n \in lines : n > out[Len(out)].line
  /\ remaining_proofs # {}

C3_CompiledWithLastLine ==
  pc = "loop" =>
    \A p \in Registered :
      /\ p \in DOMAIN proof_types => proofObj[p] \subseteq lines_checked
      /\ proofObj[p] \subseteq lines_checked => p \in DOMAIN proof_types
      /\ \A i \in CompiledAt(p) : out[i].line = Max(proofObj[p])
      /\ Cardinality(CompiledAt(p)) <= 1

\* C3, amended: during a run a registered proof is compiled in this run only
\* if all its lines are checked in this run (an entry left by an earlier run
\* stays until then); once all its lines are checked and some line is checked,
\* it is compiled, and has its entry, before the next line is verified; it is
\* compiled in the step of its last line (of the first line checked, when it
\* has no lines), and at most once per run.
C3_CompiledWithLastLineThisRun ==
  pc \in {"loop", "done"} =>
    \A p \in Registered :
      /\ CompiledAt(p) # {} =>
           proofObj[p] \subseteq lines_checked /\ p \in DOMAIN proof_types
      /\ (lines_checked # {} /\ proofObj[p] \subseteq lines_checked)
           => CompiledAt(p) # {}
      /\ \A i \in CompiledAt(p) :
           IF proofObj[p] = {} THEN i = 1
           ELSE out[i].line = Max(proofObj[p])
      /\ Cardinality(CompiledAt(p)) <= 1

\* C3's case: two registered proofs, the one with the larger line number
\* registered first; the other is compiled while the first still waits.
C3_Witness ==
  /\ pc = "loop"
  /\ \E p, q \in Registered :
       /\ p < q
       /\ proofObj[p] # {} /\ proofObj[q] # {}
       /\ Max(proofObj[q]) < Max(proofObj[p])
       /\ CompiledAt(q) # {}
       /\ CompiledAt(p) = {}
       /\ ~(proofObj[p] \subseteq lines_checked)

\* C4 as stated: check() returns false whenever the Context holds no lines.
C4_ZeroLinesReturnFalse ==
  (pc = "done" /\ lines = {}) => result = "False"

\* C5: no step of add_proof or check() removes a constant; a later check()
\* starts from the constants the earlier one left.
C5_ConstantsNeverShrink == [][constants \subseteq constants']_vars

\* C5's case: a check() is about to verify its first line and holds a constant
\* that only a line verified by an earlier check() can have brought.
C5_Witness ==
  /\ pc = "loop"
  /\ out = << >>
  /\ re \in constants

\* C6 as stated: every line number of Context.lines belongs to exactly one
\* registered proof.
C6_ExactlyOneProof ==
  \A n \in lines : Cardinality({k \in DOMAIN proofs : n \in Range(k)}) = 1

\* C6, amended: every line number of Context.lines belongs to at least one
\* registered proof, every registered proof is filed under its own line
\* numbers, all of them in Context.lines, and a proof added with the line
\* numbers of an earlier one takes its place.
C6_AtLeastOneProof ==
  /\ \A n \in lines : \E k \in DOMAIN proofs : n \in Range(k)
  /\ \A k \in DOMAIN proofs :
       /\ Range(k) \subseteq lines
       /\ proofObj[proofs[k]] = Range(k)
       /\ k = sorted(Range(k))
  /\ \A p, q \in Registered : proofObj[p] = proofObj[q] => p = q

\* C6's case: two proofs with the same, non-empty line numbers were added;
\* the registry holds the later one.
C6_Witness ==
  \E p, q \in DOMAIN proofObj :
    /\ p < q
    /\ proofObj[p] = proofObj[q]
    /\ proofObj[p] # {}
    /\ q \in Registered
    /\ p \notin Registered

\* ------------------------------------------------ unification.py: unify
\* The substitution dicts a call of unify can reach: s and v are the dicts the
\* caller passed, ds and dv the dicts of the default arguments.
Maps(s, v, ds, dv) == [s |-> s, v |-> v, ds |-> ds, dv |-> dv]

\* subst / var_subst inside a call: the default dict when sd / vd says that the
\* caller passed none.
GetSubst(m, sd) == IF sd THEN m.ds ELSE m.s
SetSubst(m, sd, new) == IF sd THEN [m EXCEPT !.ds = new] ELSE [m EXCEPT !.s = new]
GetVarSubst(m, vd) == IF vd THEN m.dv ELSE m.v
SetVarSubst(m, vd, new) == IF vd THEN [m EXCEPT !.dv = new] ELSE [m EXCEPT !.v = new]

PyBool(b) == IF b THEN "True" ELSE "False"
Returned(res, m) == [res |-> res, m |-> m]

\* unify: "if PropHole in (type(p), type(q))"
unify_PropHole(p, q, sd, m) ==
  LET hole == IF type(p) = "PropHole" THEN p[2] ELSE q[2]
      exp == IF type(p) = "PropHole" THEN q ELSE p
      subst == GetSubst(m, sd)
  IN  IF hole \in DOMAIN subst
      THEN Returned(PyBool(subst[hole] = exp), m)
      ELSE Returned("True", SetSubst(m, sd, Put(subst, hole, exp)))

\* unify: "if ModelRefHole in (type(p), type(q))"
unify_ModelRefHole(p, q, vd, m) ==
  LET hole == IF type(p) = "ModelRefHole" THEN p[2] ELSE q[2]
      exp == IF type(p) = "ModelRefHole" THEN q ELSE p
      var_subst == GetVarSubst(m, vd)
  IN  IF type(exp) # "ModelRef" THEN Returned("False", m)
      ELSE IF hole \in DOMAIN var_subst
      THEN Returned(PyBool(var_subst[hole] = exp), m)
      ELSE Returned("True", SetVarSubst(m, vd, Put(var_subst, hole, exp)))

\* unify: the dicts the Predicate case hands to unify for each argument pair.
\* It passes none, so both are the defaults.
PredicateArgDefaults == TRUE

RECURSIVE unify(_, _, _, _, _)
RECURSIVE unify_args(_, _, _, _, _)

\* unify(p, q, subst, var_subst); res is "True", "False" or "AssertionError"
unify(p, q, sd, vd, m) ==
  IF "PropHole" \in {type(p), type(q)} THEN unify_PropHole(p, q, sd, m)
  ELSE IF "ModelRefHole" \in {type(p), type(q)} THEN unify_ModelRefHole(p, q, vd, m)
  ELSE IF IsBinary(p) /\ type(p) = type(q) THEN
    LET l == unify(p[2], q[2], sd, vd, m)
    IN  IF l.res # "True" THEN l ELSE unify(p[3], q[3], sd, vd, l.m)
  ELSE IF type(p) = "bool" /\ type(q) = "bool" THEN Returned(PyBool(p = q), m)
  ELSE IF type(p) \in {"BaseProp", "ModelRef"} /\ type(p) = type(q) THEN
    Returned(PyBool(p[2] = q[2]), m)
  ELSE IF IsQuant(p) /\ type(p) = type(q) THEN
    LET l == unify(p[2], q[2], sd, vd, m)
    IN  IF l.res # "True" THEN l ELSE unify(p[3], q[3], sd, vd, l.m)
  ELSE IF type(p) = "Predicate" /\ type(q) = "Predicate" THEN
    IF p[2] = q[2] /\ Len(p[3]) = Len(q[3])
    THEN unify_args(p[3], q[3],
                    sd \/ PredicateArgDefaults, vd \/ PredicateArgDefaults, m)
    ELSE Returned("False", m)
  ELSE IF type(p) = type(q) THEN Returned("AssertionError", m)
  ELSE Returned("False", m)

\* unify: all(unify(xp, xq) for xp, xq in zip(p.args, q.args))
unify_args(ps, qs, sd, vd, m) ==
  IF ps = << >> THEN Returned("True", m)
  ELSE LET l == unify(Head(ps), Head(qs), sd, vd, m)
       IN  IF l.res # "True" THEN l
           ELSE unify_args(Tail(ps), Tail(qs), sd, vd, l.m)

\* ---------------------------------------------- unification.py: diff_tree
Differ(p, q) == [err |-> FALSE, p |-> p, q |-> q]
DiffAssertionError == [err |-> TRUE, p |-> False, q |-> False]

\* A diff_tree that goes into the operand pair that is equal.
RECURSIVE diff_tree_IntoEqual(_, _)
diff_tree_IntoEqual(p, q) ==
  IF IsBinary(p) /\ type(p) = type(q) THEN
    IF p[2] # q[2] /\ p[3] # q[3] THEN Differ(p, q)
    ELSE IF p[2] = q[2] THEN diff_tree_IntoEqual(p[2], q[2])
    ELSE IF p[3] = q[3] THEN diff_tree_IntoEqual(p[3], q[3])
    ELSE DiffAssertionError
  ELSE IF IsQuant(p) /\ type(p) = type(q) THEN
    IF p[2] = q[2] THEN diff_tree_IntoEqual(p[3], q[3]) ELSE Differ(p, q)
  ELSE IF type(p) = "Predicate" /\ type(q) = "Predicate" THEN
    IF p # q THEN Differ(p, q) ELSE DiffAssertionError
  ELSE Differ(p, q)

RECURSIVE diff_tree(_, _)
diff_tree(p, q) ==
  IF IsBinary(p) /\ type(p) = type(q) THEN
    IF p[2] # q[2] /\ p[3] # q[3] THEN Differ(p, q)
    ELSE IF p[2] = q[2] THEN diff_tree(p[3], q[3])
    ELSE IF p[3] = q[3] THEN diff_tree(p[2], q[2])
    ELSE DiffAssertionError
  ELSE IF IsQuant(p) /\ type(p) = type(q) THEN
    IF p[2] = q[2] THEN diff_tree(p[3], q[3]) ELSE Differ(p, q)
  ELSE IF type(p) = "Predicate" /\ type(q) = "Predicate" THEN
    IF p # q THEN Differ(p, q) ELSE DiffAssertionError
  ELSE Differ(p, q)

\* -------------------------------------------- unification.py: try_rewrite
\* rewrite(): fresh dicts, both unifications, the assertion
rewrite(old_t, new_t, old_r, new_r, ds, dv) ==
  LET l == unify(old_t, old_r, FALSE, FALSE, Maps(<< >>, << >>, ds, dv))
      r == IF l.res = "True" THEN unify(new_t, new_r, FALSE, FALSE, l.m) ELSE l
  IN  IF r.res = "True" THEN Returned("substs", r.m)
      ELSE Returned("AssertionError", r.m)

\* A try_rewrite without the test for equal trees.
try_rewrite_NoFastPath(old, new, rule, ds, dv) ==
  LET d == diff_tree(old, new)
  IN  IF d.err THEN Returned("AssertionError", Maps(<< >>, << >>, ds, dv))
      ELSE LET first == rewrite(d.p, d.q, rule[1], rule[2], ds, dv)
           IN  IF first.res = "substs" THEN first
               ELSE rewrite(d.p, d.q, rule[2], rule[1],
                            first.m.ds, first.m.dv)

\* try_rewrite(transformation, rule); res is "empty" (the {} of the equal
\* trees), "substs" or "AssertionError"
try_rewrite(old, new, rule, ds, dv) ==
  IF old = new THEN Returned("empty", Maps(<< >>, << >>, ds, dv))
  ELSE LET d == diff_tree(old, new)
       IN  IF d.err THEN Returned("AssertionError", Maps(<< >>, << >>, ds, dv))
           ELSE LET first == rewrite(d.p, d.q, rule[1], rule[2], ds, dv)
                IN  IF first.res = "substs" THEN first
                    ELSE rewrite(d.p, d.q, rule[2], rule[1],
                                 first.m.ds, first.m.dv)

\* ------------------------------------------- unification.py: the catalog
a == PropHole("a")
b == PropHole("b")
c == PropHole("c")
x == ModelRefHole("x")

Catalog ==
  [ or_comm |-> <<Or(a, b), Or(b, a)>>,
    and_comm |-> <<And(a, b), And(b, a)>>,
    or_assoc |-> <<Or(Or(a, b), c), Or(a, Or(b, c))>>,
    and_assoc |-> <<And(And(a, b), c), And(a, And(b, c))>>,
    double_neg |-> <<a, Imp(Imp(a, False), False)>>,
    cp |-> <<Imp(a, b), Imp(Not(b), Not(a))>>,
    impl_equiv |-> <<Imp(a, b), Or(Not(a), b)>>,
    distr_and_or |-> <<And(a, Or(b, c)), Or(And(a, b), And(a, c))>>,
    distr_or_and |-> <<Or(a, And(b, c)), And(Or(a, b), Or(a, c))>>,
    demorgan_and_or |-> <<Not(And(a, b)), Or(Not(a), Not(b))>>,
    demorgan_or_and |-> <<Not(Or(a, b)), And(Not(a), Not(b))>>,
    self_or |-> <<a, Or(a, a)>>,
    self_and |-> <<a, And(a, a)>>,
    exp |-> <<Imp(a, Imp(b, c)), Imp(And(a, b), c)>>,
    demorgan_forall_exists |-> <<Not(ForAll(x, a)), Exists(x, Not(a))>>,
    demorgan_exists_forall |-> <<Not(Exists(x, a)), ForAll(x, Not(a))>> ]

RuleNames == DOMAIN Catalog

\* ------------------------------------------------- mouse.py: is_axiom
\* unify(p, Or(a, Not(a)), {}) or unify(p, Or(Not(a), a), {}): a fresh subst for
\* each call, the default var_subst for both.
is_axiom(p, ds, dv) ==
  LET l == unify(p, Or(a, Not(a)), FALSE, TRUE, Maps(<< >>, << >>, ds, dv))
  IN  IF l.res # "False" THEN l
      ELSE unify(p, Or(Not(a), a), FALSE, TRUE,
                 Maps(<< >>, << >>, l.m.ds, l.m.dv))

\* ------------------------------------------ the arguments of the calls
A == BaseProp("A")
B == BaseProp("B")
Terms == {rd, re, x}
Preds == {Predicate("P", <<t>>) : t \in Terms}
UnifyProps ==
  {A, B, a, False} \cup Terms \cup Preds
    \cup {ForAll(t, f) : t \in Terms, f \in Preds}
    \cup {And(l, r) : l, r \in {A, B, a}}

\* How the caller passes the dicts: both fresh ("fresh", as rewrite() does),
\* a fresh subst alone ("subst_only", as is_axiom does), none ("defaults").
Modes == {"fresh", "subst_only", "defaults"}

\* The ground propositions the holes of a rule are instantiated with.
Ground == {A, B, Not(B)}
Sigmas == [a : Ground, b : Ground, c : Ground, x : {rd}]

\* pattern with every hole replaced by its value under sigma
RECURSIVE Instantiate(_, _)
Instantiate(pattern, sigma) ==
  IF type(pattern) = "PropHole" THEN sigma[pattern[2]]
  ELSE IF type(pattern) = "ModelRefHole" THEN sigma[pattern[2]]
  ELSE IF IsBinary(pattern) \/ IsQuant(pattern) THEN
    <<pattern[1], Instantiate(pattern[2], sigma), Instantiate(pattern[3], sigma)>>
  ELSE pattern

AxiomArgs ==
  {Or(A, Not(A)), Or(Not(A), A), Or(A, Not(B)), A,
   Or(Predicate("P", <<rd>>), Not(Predicate("P", <<rd>>)))}

\* ------------------------------------------------------ the calls
Call(op, p, q, rule, inst, mode, res, subst, var_subst) ==
  [op |-> op, p |-> p, q |-> q, rule |-> rule, inst |-> inst, mode |-> mode,
   res |-> res, subst |-> subst, var_subst |-> var_subst]

\* What a call leaves behind: the default dicts, and its record.
Leaves(m, call) ==
  /\ default_subst' = m.ds
  /\ default_var_subst' = m.dv
  /\ ucall' = call
  /\ upc' = "returned"
  /\ UNCHANGED ctxVars

CallUnify(p, q, mode) ==
  /\ upc = "ready"
  /\ LET sd == mode = "defaults"
         vd == mode # "fresh"
         r == unify(p, q, sd, vd,
                    Maps(<< >>, << >>, default_subst, default_var_subst))
     IN  Leaves(r.m, Call("unify", p, q, "none", "none", mode, r.res,
                          GetSubst(r.m, sd), GetVarSubst(r.m, vd)))

\* try_rewrite((L', R'), rule), (L', R') the rule inst under sigma
CallTryRewrite(inst, sigma, rule) ==
  /\ upc = "ready"
  /\ LET old == Instantiate(Catalog[inst][1], sigma)
         new == Instantiate(Catalog[inst][2], sigma)
         r == try_rewrite(old, new, Catalog[rule],
                          default_subst, default_var_subst)
     IN  Leaves(r.m, Call("try_rewrite", old, new, rule, inst, "fresh", r.res,
                          r.m.s, r.m.v))

CallIsAxiom(p) ==
  /\ upc = "ready"
  /\ LET r == is_axiom(p, default_subst, default_var_subst)
     IN  Leaves(r.m, Call("is_axiom", p, False, "none", "none", "subst_only",
                          r.res, r.m.s, r.m.dv))

\* The caller has taken the result.
Return ==
  /\ upc = "returned"
  /\ upc' = "ready"
  /\ ucall' = NoCall
  /\ UNCHANGED <<default_subst, default_var_subst>>
  /\ UNCHANGED ctxVars

NextUnify ==
  \/ \E p, q \in UnifyProps : \E mode \in Modes : CallUnify(p, q, mode)
  \/ \E p \in AxiomArgs : CallIsAxiom(p)
  \/ Return

\* Calls of unify and is_axiom, one after the other.
SpecUnify == Init /\ [][NextUnify]_vars

NextRewrite ==
  \/ \E inst, rule \in RuleNames : \E sigma \in Sigmas :
       CallTryRewrite(inst, sigma, rule)
  \/ Return

\* Calls of try_rewrite on instances of the catalog's rules.
SpecRewrite == Init /\ [][NextRewrite]_vars

\* ------------------------------------------- unification: the claims' terms
EmptyMaps == Maps(<< >>, << >>, << >>, << >>)

\* The (kind of hole, hole, expression) pairs unify(p, q) sets against each
\* other, whatever the dicts hold.
RECURSIVE Matches(_, _)
Matches(p, q) ==
  IF "PropHole" \in {type(p), type(q)} THEN
    IF type(p) = "PropHole" THEN {<<"PropHole", p[2], q>>}
    ELSE {<<"PropHole", q[2], p>>}
  ELSE IF "ModelRefHole" \in {type(p), type(q)} THEN
    IF type(p) = "ModelRefHole" THEN {<<"ModelRefHole", p[2], q>>}
    ELSE {<<"ModelRefHole", q[2], p>>}
  ELSE IF (IsBinary(p) \/ IsQuant(p)) /\ type(p) = type(q) THEN
    Matches(p[2], q[2]) \cup Matches(p[3], q[3])
  ELSE IF /\ type(p) = "Predicate" /\ type(q) = "Predicate"
          /\ p[2] = q[2] /\ Len(p[3]) = Len(q[3]) THEN
    UNION {Matches(p[3][i], q[3][i]) : i \in DOMAIN p[3]}
  ELSE {}

\* C7 as stated: try_rewrite on a ground instance (L', R') of a catalog rule
\* (L, R), called with that rule, returns substitutions and does not raise.
C7_InstanceRewrites ==
  (upc = "returned" /\ ucall.op = "try_rewrite" /\ ucall.inst = ucall.rule)
    => ucall.res # "AssertionError"

\* C8 as stated: a unify call that returns true has set every hole against
\* one expression only; all occurrences of a hole met equal expressions.
C8_OneExpressionPerHole ==
  (upc = "returned" /\ ucall.op = "unify" /\ ucall.res = "True")
    => \A m1, m2 \in Matches(ucall.p, ucall.q) :
         (m1[1] = m2[1] /\ m1[2] = m2[2]) => m1[3] = m2[3]

\* C9 as stated: the outcome of a call depends on its proposition arguments
\* only: it is the outcome the same call has when no call went before.
C9_NoBindingOutlivesACall ==
  (upc = "returned" /\ ucall.op \in {"unify", "is_axiom"}) =>
    ucall.res =
      IF ucall.op = "unify"
      THEN unify(ucall.p, ucall.q, ucall.mode = "defaults",
                 ucall.mode # "fresh", EmptyMaps).res
      ELSE is_axiom(ucall.p, << >>, << >>).res

\* C10 as stated: after a unify call every value of the reference
\* substitution is a domain reference, a reference-hole facing anything else
\* made the call return false, and no formula-hole is bound to a domain
\* reference or to a reference-hole.
C10_NoCrossBinding ==
  (upc = "returned" /\ ucall.op = "unify") =>
    /\ \A h \in DOMAIN ucall.var_subst : type(ucall.var_subst[h]) = "ModelRef"
    /\ \A h \in DOMAIN default_var_subst :
         type(default_var_subst[h]) = "ModelRef"
    /\ (type(ucall.p) = "ModelRefHole" /\ type(ucall.q) # "ModelRef")
         => ucall.res = "False"
    /\ (type(ucall.q) = "ModelRefHole" /\ type(ucall.p) # "ModelRef")
         => ucall.res = "False"
    /\ \A h \in DOMAIN ucall.subst :
         type(ucall.subst[h]) \notin {"ModelRef", "ModelRefHole"}

\* C11 as stated: unify(p, p) called with empty substitution maps returns
\* true and leaves both maps empty, for a p with holes as for a ground p.
C11_UnifySelf ==
  (/\ upc = "returned" /\ ucall.op = "unify" /\ ucall.mode = "fresh"
   /\ ucall.p = ucall.q)
    => /\ ucall.res = "True"
       /\ ucall.subst = << >>
       /\ ucall.var_subst = << >>

\* ------------------------------------------------------ alpha_renaming
\* alpha_renaming(orig, new, orig_var, subst): subst is the dict the caller
\* passes, a function on a subset of {orig_var}. The outcome: err is TRUE
\* when an assert fails, subst is the dict as the call leaves it.
AlphaDone(err, subst) == [err |-> err, subst |-> subst]

\* the loop over zip(orig.args, new.args), from index i on
RECURSIVE alpha_args(_, _, _, _, _)
alpha_args(oargs, nargs, i, orig_var, subst) ==
  IF i > Len(oargs) THEN AlphaDone(FALSE, subst)
  ELSE IF oargs[i] = orig_var THEN
    LET s1 == IF orig_var \notin DOMAIN subst
              THEN Put(subst, orig_var, nargs[i]) ELSE subst
    IN  IF s1[orig_var] # nargs[i] THEN AlphaDone(TRUE, s1)
        ELSE alpha_args(oargs, nargs, i + 1, orig_var, s1)
  ELSE alpha_args(oargs, nargs, i + 1, orig_var, subst)

RECURSIVE alpha_renaming(_, _, _, _)
alpha_renaming(orig, new, orig_var, subst) ==
  IF type(orig) # type(new) THEN AlphaDone(TRUE, subst)
  ELSE IF IsBinary(orig) THEN
    LET l == alpha_renaming(orig[2], new[2], orig_var, subst)
    IN  IF l.err THEN l
        ELSE alpha_renaming(orig[3], new[3], orig_var, l.subst)
  ELSE IF IsQuant(orig) THEN
    IF orig[2] # new[2] THEN AlphaDone(TRUE, subst)
    ELSE IF orig_var \in DOMAIN subst /\ subst[orig_var] = new[2]
    THEN AlphaDone(TRUE, subst)
    ELSE alpha_renaming(orig[3], new[3], orig_var, subst)
  ELSE IF type(orig) = "Predicate" THEN
    IF orig[2] # new[2] \/ Len(orig[3]) # Len(new[3])
    THEN AlphaDone(TRUE, subst)
    ELSE alpha_args(orig[3], new[3], 1, orig_var, subst)
  ELSE AlphaDone(FALSE, subst)

\* The arguments of the calls.
AlphaRefs == {rd, re, rx}
AlphaAtoms == {Predicate("P", <<t>>) : t \in AlphaRefs} \cup {A}
AlphaQuants == {ForAll(v, f) : v \in AlphaRefs, f \in AlphaAtoms}
AlphaProps ==
  AlphaAtoms \cup AlphaQuants
    \cup {And(f, g) : f \in AlphaAtoms, g \in AlphaQuants}
    \cup {And(g, f) : f \in AlphaAtoms, g \in AlphaQuants}

\* alpha_renaming(orig, new, orig_var, {}) and what it did
CallAlphaRenaming ==
  /\ upc = "ready"
  /\ \E orig, new \in AlphaProps : \E orig_var \in AlphaRefs :
       LET r == alpha_renaming(orig, new, orig_var, << >>)
       IN  ucall' = [op |-> "alpha_renaming", orig |-> orig, new |-> new,
                     orig_var |-> orig_var,
                     res |-> IF r.err THEN "AssertionError" ELSE "None",
                     subst |-> r.subst]
  /\ upc' = "returned"
  /\ UNCHANGED <<default_subst, default_var_subst>>
  /\ UNCHANGED ctxVars

NextAlpha ==
  \/ CallAlphaRenaming
  \/ Return

\* Calls of alpha_renaming, each with an empty substitution.
SpecAlpha == Init /\ [][NextAlpha]_vars

\* new puts, for a free occurrence of v in orig, a reference that a
\* quantifier around that position binds (bound: the variables of the
\* quantifiers passed on the way down)
RECURSIVE Captures(_, _, _, _)
Captures(orig, new, v, bound) ==
  IF type(orig) # type(new) THEN FALSE
  ELSE IF IsBinary(orig) THEN
    Captures(orig[2], new[2], v, bound) \/ Captures(orig[3], new[3], v, bound)
  ELSE IF IsQuant(orig) THEN
    Captures(orig[3], new[3], v, bound \cup {new[2]})
  ELSE IF type(orig) = "Predicate" /\ Len(orig[3]) = Len(new[3]) THEN
    \E i \in DOMAIN orig[3] :
      orig[3][i] = v /\ v \notin bound /\ new[3][i] \in bound
  ELSE FALSE

\* C12 as stated: alpha_renaming called with an empty substitution fails on
\* every instantiation that captures, whether the quantifier that binds the
\* new reference is met before or after the first occurrence of orig_var.
C12_CaptureRejected ==
  (/\ upc = "returned" /\ ucall.op = "alpha_renaming"
   /\ Captures(ucall.orig, ucall.new, ucall.orig_var, {}))
    => ucall.res = "AssertionError"

\* ------------------------------------------ check(): the constants' terms
\* the references with a free occurrence in formula
RECURSIVE FreeRefs(_)
FreeRefs(formula) ==
  IF IsBinary(formula) THEN FreeRefs(formula[2]) \cup FreeRefs(formula[3])
  ELSE IF IsQuant(formula) THEN FreeRefs(formula[3]) \ {formula[2]}
  ELSE IF type(formula) = "Predicate" THEN Range(formula[3])
  ELSE {}

PremiseLines == {n \in lines : lineObj[n].just = "prem"}

\* C13 as stated: while check() runs its loop, from before the first line is
\* verified on, every reference with a free occurrence in a premise's
\* proposition is in the constants.
C13_FreePremiseRefsAreConstants ==
  pc = "loop" =>
    \A n \in PremiseLines : FreeRefs(lineObj[n].typ) \subseteq constants

\* ------------------------------------- diff_tree and try_rewrite on trees
\* The trees of the calls: atoms, one connective or quantifier over atoms,
\* and a connective over those.
TreeAtoms == {A, B, Predicate("P", <<rd>>), Predicate("P", <<re>>)}
TreeLevel1 ==
  {And(l, r) : l, r \in {A, B}} \cup {Or(A, B), Or(B, A)}
    \cup {ForAll(v, f) : v \in {rx, rd}, f \in {A, Predicate("P", <<rd>>)}}
    \cup {Not(A), Not(B)}
TreeLevel2 ==
  {And(f, g) : f \in {A, B}, g \in TreeLevel1}
    \cup {Imp(g, A) : g \in TreeLevel1}
    \cup {ForAll(rx, g) : g \in {And(A, B), And(B, A), Not(A)}}
TreeProps == TreeAtoms \cup TreeLevel1 \cup TreeLevel2

\* The trees try_rewrite is called on with every rule of the catalog.
RewriteProps ==
  TreeAtoms \cup {And(A, B), Or(A, B), Or(B, A), Not(Not(A)), Imp(Not(A), B),
                  ForAll(rx, Predicate("P", <<rx>>))}

\* diff_tree(p, q) and what it returned
CallDiffTree ==
  /\ upc = "ready"
  /\ \E p, q \in TreeProps :
       LET r == diff_tree(p, q)
       IN  ucall' = [op |-> "diff_tree", p |-> p, q |-> q, err |-> r.err,
                     dp |-> r.p, dq |-> r.q]
  /\ upc' = "returned"
  /\ UNCHANGED <<default_subst, default_var_subst>>
  /\ UNCHANGED ctxVars

\* try_rewrite((old, new), rule) on any two trees, equal ones included
CallTryRewritePair ==
  /\ upc = "ready"
  /\ \E old, new \in RewriteProps : \E rule \in RuleNames :
       LET r == try_rewrite(old, new, Catalog[rule],
                            default_subst, default_var_subst)
       IN  Leaves(r.m, Call("try_rewrite", old, new, rule, "none", "fresh",
                            r.res, r.m.s, r.m.v))

NextTrees ==
  \/ CallDiffTree
  \/ CallTryRewritePair
  \/ Return

\* Calls of diff_tree and of try_rewrite on trees that are no rule's instance.
SpecTrees == Init /\ [][NextTrees]_vars

\* C14: try_rewrite((p, p), rule) returns the empty substitutions, whatever
\* the rule, and neither raises nor binds anything.
C14_EqualTreesRewrite ==
  (upc = "returned" /\ ucall.op = "try_rewrite" /\ ucall.p = ucall.q)
    => /\ ucall.res = "empty"
       /\ ucall.subst = << >>
       /\ ucall.var_subst = << >>

\* try_rewrite((p, p), cp) has returned, p a disjunction, which the
\* contrapositive rule matches in neither direction
C14_Witness ==
  /\ upc = "returned"
  /\ ucall.op = "try_rewrite"
  /\ ucall.p = Or(A, B)
  /\ ucall.q = Or(A, B)
  /\ ucall.rule = "cp"
  /\ ucall.res = "empty"

\* ------------------------------------------------ check(): order and frame
\* C15: the lines verified in a run come in strictly ascending order of
\* their numbers, so each at most once, and a line is verified only after
\* every line of Context.lines with a smaller number, of whatever proof, was
\* verified with success.
C15_FlatAscendingOrder ==
  /\ \A i, j \in DOMAIN out : i < j => out[i].line < out[j].line
  /\ \A i \in DOMAIN out : \A n \in lines :
       n < out[i].line =>
         \E j \in 1..(i - 1) : out[j].line = n /\ out[j].mark = "ok"

\* the proof with line 2 was added before the proof with line 1, and the run
\* verified line 1, then line 2
C15_Witness ==
  /\ DOMAIN proofObj = {1, 2}
  /\ proofObj[1] = {2}
  /\ proofObj[2] = {1}
  /\ Len(out) = 2
  /\ out[1].line = 1
  /\ out[2].line = 2

\* C16: in the loop of check(), from before the first line is verified on,
\* the constants hold the ground symbols (sym - var of get_symbols) of every
\* premise line of the Context, whatever its number and its proof.
C16_PremisesSeeded ==
  pc = "loop" =>
    \A n \in PremiseLines : GroundSymbols(lineObj[n].typ) \subseteq constants

\* no line is verified yet; the premise is line 2, of another proof than
\* line 1, which is no premise; the premise's d is a constant
C16_Witness ==
  /\ pc = "loop"
  /\ out = << >>
  /\ lines = {1, 2}
  /\ lineObj[1].just # "prem"
  /\ lineObj[2].just = "prem"
  /\ \E k \in DOMAIN proofs : Range(k) = {2}
  /\ rd \in constants

\* ------------------------------------------------- diff_tree: positions
\* A position is the sequence of the operands taken from the root: 2 and 3
\* for the operands of a connective, 3 for the formula of a quantifier.
RECURSIVE Positions(_)
Positions(p) ==
  {<< >>}
    \cup (IF IsBinary(p) THEN {<<2>> \o s : s \in Positions(p[2])} ELSE {})
    \cup (IF IsBinary(p) \/ IsQuant(p)
          THEN {<<3>> \o s : s \in Positions(p[3])} ELSE {})

RECURSIVE SubtreeAt(_, _)
SubtreeAt(p, pos) ==
  IF pos = << >> THEN p ELSE SubtreeAt(p[Head(pos)], Tail(pos))

\* p with the subtree at pos replaced by r
RECURSIVE ReplaceAt(_, _, _)
ReplaceAt(p, pos, r) ==
  IF pos = << >> THEN r
  ELSE [p EXCEPT ![Head(pos)] = ReplaceAt(p[Head(pos)], Tail(pos), r)]

\* C17: for unequal p and q, diff_tree(p, q) does not reach its assert and
\* returns an unequal pair (p', q') found at one position of p and of q, such
\* that p with q' put for p' at that position is q.
C17_DiffTreeLocates ==
  (upc = "returned" /\ ucall.op = "diff_tree" /\ ucall.p # ucall.q)
    => /\ ~ucall.err
       /\ ucall.dp # ucall.dq
       /\ \E pos \in Positions(ucall.p) \cap Positions(ucall.q) :
            /\ SubtreeAt(ucall.p, pos) = ucall.dp
            /\ SubtreeAt(ucall.q, pos) = ucall.dq
            /\ ReplaceAt(ucall.p, pos, ucall.dq) = ucall.q

\* diff_tree went two operands down, past an equal operand each time
C17_Witness ==
  /\ upc = "returned"
  /\ ucall.op = "diff_tree"
  /\ ucall.p = And(A, And(A, B))
  /\ ucall.q = And(A, And(B, B))
  /\ ~ucall.err
  /\ ucall.dp = A
  /\ ucall.dq = B

\* ------------------------------------------------ check(): a failing line
\* C18: the step in which a line fails and check() returns false leaves the
\* constants and the compiled proof_types as the last line verified with
\* success (or the seeding, if there is none) left them; the symbols of the
\* failing line are not merged.
C18_FailingLineLeavesNothing ==
  [][(pc = "loop" /\ result' = "False")
       => /\ constants' = constants
          /\ proof_types' = proof_types]_vars

\* check() returned false at line 2, after line 1 passed; line 2 is the only
\* line with the reference e, and e is no constant
C18_Witness ==
  /\ pc = "done"
  /\ result = "False"
  /\ Len(out) = 2
  /\ out[1].mark = "ok"
  /\ out[2].mark = "x"
  /\ lineObj[out[2].line].typ = ConcE
  /\ re \notin constants

====
